---- MODULE Spec2Model ----
(***************************************************************************)
(* Practice verification pipeline of Go_Learning: practice.Checker.Check   *)
(* over the content repository (tasks), the progress repository            *)
(* (submissions, lesson points) and the Runner.                            *)
(*                                                                         *)
(* Strings are sequences of tokens; "" is <<>>.  A token is one character  *)
(* (" ", "|", "a", ...) or an opaque run of characters that none of the    *)
(* string functions used here looks inside ("manual", a fixed message).    *)
(***************************************************************************)
EXTENDS Integers, Sequences, FiniteSets, TLC

VARIABLES tasks, submissions, practice, calls, limit, codePool, cmp,
          boot, completes, inv, lesson, runs, faults

\* The handleRun requests, and the ledger operations that may fail in
\* addition to those that may fail in every specification.
more == <<runs, faults>>

\* What the Checker's steps and compareOutput leave alone: the process
\* generation, the handleCompleteTask requests, the Runner invocation, the
\* lesson source under import, and the above.
side == <<boot, completes, inv, lesson, more>>

vars == <<tasks, submissions, practice, calls, limit, codePool, cmp, side>>

\* ---------------------------------------------------------------- bounds
MaxCalls == 2
MaxPatLen == 3
MaxCodeLen == 2
MaxOutLen == 3
MaxCompletes == 2
MaxBoots == 2
MaxPointsLen == 2
MaxDeadline == 2
MaxRuns == 1
MaxImports == 2

\* ------------------------------------------------------- string helpers
Space == {" ", "\t", "\n", "\r"}

RECURSIVE TrimLeft(_)
TrimLeft(s) ==
  IF s # <<>> /\ Head(s) \in Space THEN TrimLeft(Tail(s)) ELSE s

RECURSIVE TrimRightSet(_, _)
TrimRightSet(s, cut) ==
  IF s # <<>> /\ s[Len(s)] \in cut
  THEN TrimRightSet(SubSeq(s, 1, Len(s) - 1), cut)
  ELSE s

TrimSpace(s) == TrimRightSet(TrimLeft(s), Space)

RECURSIVE SplitAcc(_, _, _)
SplitAcc(rest, sep, cur) ==
  IF rest = <<>> THEN <<cur>>
  ELSE IF Head(rest) = sep
       THEN <<cur>> \o SplitAcc(Tail(rest), sep, <<>>)
       ELSE SplitAcc(Tail(rest), sep, Append(cur, Head(rest)))

Split(s, sep) == SplitAcc(s, sep, <<>>)

Contains(s, sub) ==
  \E i \in 1..(Len(s) + 1) :
     /\ i + Len(sub) - 1 <= Len(s)
     /\ SubSeq(s, i, i + Len(sub) - 1) = sub

RECURSIVE Join(_, _)
Join(parts, sep) ==
  IF parts = <<>> THEN <<>>
  ELSE IF Len(parts) = 1 THEN parts[1]
  ELSE parts[1] \o sep \o Join(Tail(parts), sep)

\* --------------------------------------------------------- output compare
RECURSIVE ReplaceCRLF(_)
ReplaceCRLF(s) ==
  IF s = <<>> THEN <<>>
  ELSE IF Len(s) >= 2 /\ s[1] = "\r" /\ s[2] = "\n"
       THEN <<"\n">> \o ReplaceCRLF(SubSeq(s, 3, Len(s)))
       ELSE <<Head(s)>> \o ReplaceCRLF(Tail(s))

normalizeOutput(s) ==
  LET lines == Split(ReplaceCRLF(s), "\n")
  IN  Join([i \in 1..Len(lines) |-> TrimRightSet(lines[i], {" ", "\t"})],
           <<"\n">>)

\* Mutant of nonEmptyLines: blank lines are kept.
nonEmptyLines_KeepsBlank(s) == Split(s, "\n")

nonEmptyLines(s) ==
  SelectSeq(Split(s, "\n"), LAMBDA line : TrimSpace(line) # <<>>)

\* Mutant of compareOutput: the line counts are not compared.
compareOutput_NoCount(actual, expected) ==
  LET a == normalizeOutput(actual)
      e == normalizeOutput(expected)
      al == nonEmptyLines(a)
      el == nonEmptyLines(e)
  IN  \/ a = e
      \/ \A i \in 1..Len(al) :
            i <= Len(el) => TrimSpace(al[i]) = TrimSpace(el[i])

\* The second tier of compareOutput, on the normalized texts: the non-empty
\* lines are as many and equal one by one once trimmed.
compareLines(a, e) ==
  LET al == nonEmptyLines(a)
      el == nonEmptyLines(e)
  IN  /\ Len(al) = Len(el)
      /\ \A i \in 1..Len(al) : TrimSpace(al[i]) = TrimSpace(el[i])

\* Mutant of compareOutput: the lines of the expected text are looked for
\* at the start of the actual text, which may go on.
compareOutput_Prefix(actual, expected) ==
  LET a == normalizeOutput(actual)
      e == normalizeOutput(expected)
      al == nonEmptyLines(a)
      el == nonEmptyLines(e)
  IN  \/ a = e
      \/ /\ Len(el) <= Len(al)
         /\ \A i \in 1..Len(el) : TrimSpace(al[i]) = TrimSpace(el[i])

\* Mutant of compareOutput: the exact comparison alone.
compareOutput_ExactOnly(actual, expected) ==
  normalizeOutput(actual) = normalizeOutput(expected)

compareOutput(actual, expected) ==
  LET a == normalizeOutput(actual)
      e == normalizeOutput(expected)
  IN  \/ a = e
      \/ compareLines(a, e)

\* ----------------------------------------------------------- pattern stage
\* Mutant of CollectMissing: the entries are not trimmed.
RECURSIVE CollectMissing_NoTrim(_, _)
CollectMissing_NoTrim(patterns, code) ==
  IF patterns = <<>> THEN <<>>
  ELSE LET pattern == Head(patterns)
           rest == CollectMissing_NoTrim(Tail(patterns), code)
       IN  IF pattern # <<>> /\ ~Contains(code, pattern)
           THEN <<pattern>> \o rest
           ELSE rest

\* The loop over the split patterns: the trimmed, non-empty entries that do
\* not occur in the code, in order.
RECURSIVE CollectMissing(_, _)
CollectMissing(patterns, code) ==
  IF patterns = <<>> THEN <<>>
  ELSE LET pattern == TrimSpace(Head(patterns))
           rest == CollectMissing(Tail(patterns), code)
       IN  IF pattern # <<>> /\ ~Contains(code, pattern)
           THEN <<pattern>> \o rest
           ELSE rest

MissingPatterns(required, code) ==
  IF required = <<>> THEN <<>>
  ELSE CollectMissing(Split(required, "|"), code)

\* ------------------------------------------------------- fixed messages
MsgNotFound == <<"task not found">>
MsgManual == <<"manual task: do it in the IDE and mark it done">>
MsgPatterns == <<"required constructs are missing">>
MsgOutput == <<"output does not match the expected output">>
MsgTests == <<"tests failed">>
UsePrefix == <<"Use: ">>
ExpectedPrefix == <<"Expected:", "\n">>

\* ------------------------------------------------------------ the Runner
\* Runner.Run / Runner.Check are an interface; every outcome it allows is
\* drawn here: an infra error (no RunResult), or a RunResult with its
\* success flag, stdout, stderr and error string.
InfraErr == [infra |-> TRUE, Err |-> <<"sandbox unavailable">>,
             Success |-> FALSE, Stdout |-> <<>>, Stderr |-> <<>>,
             Error |-> <<>>]

RunResult(success, stdout, stderr, error) ==
  [infra |-> FALSE, Err |-> <<>>, Success |-> success, Stdout |-> stdout,
   Stderr |-> stderr, Error |-> error]

\* A program that fails at run time (stderr and error string differ), and
\* programs that succeed with a matching and a non-matching output.
RunOutcomes ==
  { InfraErr,
    RunResult(FALSE, <<"p">>, <<"panic: boom">>, <<"exit status 2">>),
    RunResult(TRUE, <<"x", "\n">>, <<>>, <<>>),
    RunResult(TRUE, <<"y">>, <<>>, <<>>) }

\* Tests that fail with an error string, tests that fail with their detail
\* on stderr only, and tests that pass.
CheckOutcomes ==
  { InfraErr,
    RunResult(FALSE, <<>>, <<"FAIL">>, <<"FAIL">>),
    RunResult(FALSE, <<>>, <<"--- FAIL: Test">>, <<>>),
    RunResult(TRUE, <<>>, <<>>, <<>>) }

\* The value of a RunResult variable before the Runner was called.
NoOutcome == RunResult(FALSE, <<>>, <<>>, <<>>)

\* ------------------------------------------------------------ web helpers
StatusOK == 200
StatusBadRequest == 400
StatusInternalServerError == 500
StatusNotFound == 404

\* Nothing has been sent yet.
NoResponse ==
  [status |-> 0, kind |-> "none", text |-> <<>>, hasValue |-> FALSE,
   log |-> <<>>]

\* http.Error(w, msg, http.StatusBadRequest)
badRequest(msg) ==
  [status |-> StatusBadRequest, kind |-> "text", text |-> msg \o <<"\n">>,
   hasValue |-> FALSE, log |-> <<>>]

\* http.NotFound(w, r)
notFound ==
  [status |-> StatusNotFound, kind |-> "text",
   text |-> <<"404 page not found", "\n">>, hasValue |-> FALSE, log |-> <<>>]

\* Mutant of serverError: the error's message is sent to the client.
serverError_SendsMessage(err) ==
  [status |-> StatusInternalServerError, kind |-> "text",
   text |-> err \o <<"\n">>, hasValue |-> FALSE,
   log |-> <<"Server error: ">> \o err]

\* log.Printf("Server error: %v", err), then http.Error with the fixed text.
serverError(err) ==
  [status |-> StatusInternalServerError, kind |-> "text",
   text |-> <<"Internal Server Error", "\n">>, hasValue |-> FALSE,
   log |-> <<"Server error: ">> \o err]

\* json.NewEncoder(w).Encode(data) with the default status; the encoded
\* value is the call's CheckResult.
jsonResponse ==
  [status |-> StatusOK, kind |-> "json", text |-> <<>>, hasValue |-> TRUE,
   log |-> <<>>]

\* ------------------------------------------------------------ data shapes
NoTask ==
  [ID |-> 0, LessonID |-> 0, RequiredPatterns |-> <<>>, ExpectedOutput |-> <<>>,
   TestsGo |-> <<>>, Mode |-> <<>>, Points |-> 0]

\* CheckResult{} with Hints: []string{}
EmptyResult ==
  [Success |-> FALSE, Output |-> <<>>, Expected |-> <<>>, Error |-> <<>>,
   Hints |-> <<>>, PointsAwarded |-> 0]

\* progress.Submission{TaskID, Code, Status: "pending"}
NewSubmission(taskID, code) ==
  [TaskID |-> taskID, Code |-> code, Status |-> "pending",
   Stdout |-> <<>>, Stderr |-> <<>>]

\* One invocation of Checker.Check: its arguments, its locals, its position
\* (pc), what it returns (hasResult/result/err) and the stages it went
\* through (trace).  prior is the set of invocations that had returned when
\* this one was made, solvedBefore whether the ledger then held a success of
\* the task.  runOut and testOut are what Runner.Run and Runner.Check returned
\* to it, solvedAtQuery whether the ledger held a success of the task when
\* the call made its already-solved query and answerLost whether that query
\* failed while the ledger held one.  boot is the process generation the call runs in, credits the
\* arguments of its SetPracticeDone invocations, http what handleCheck sends
\* once Check has returned.
NewCall(taskID, code, prior, solvedBefore) ==
  [taskID |-> taskID, code |-> code, pc |-> "load", task |-> NoTask,
   subID |-> 0, submission |-> NewSubmission(taskID, code),
   hasResult |-> FALSE, result |-> EmptyResult, err |-> <<>>,
   alreadySolved |-> FALSE, failed |-> "none", trace |-> <<>>,
   prior |-> prior, solvedBefore |-> solvedBefore,
   runOut |-> NoOutcome, testOut |-> NoOutcome, solvedAtQuery |-> FALSE,
   answerLost |-> FALSE, boot |-> boot, credits |-> <<>>, http |-> NoResponse]

\* ------------------------------------------------------------- the tasks
TaskTable ==
  (1 :> [ID |-> 1, LessonID |-> 1,
         RequiredPatterns |-> <<"a", "|", " ", "b", "|">>,
         ExpectedOutput |-> <<"x">>, TestsGo |-> <<"t">>,
         Mode |-> <<"auto">>, Points |-> 10])
  @@
  (2 :> [ID |-> 2, LessonID |-> 1,
         RequiredPatterns |-> <<"b">>,
         ExpectedOutput |-> <<>>, TestsGo |-> <<>>,
         Mode |-> <<" ", "manual">>, Points |-> 5])
  @@
  (3 :> [ID |-> 3, LessonID |-> 2,
         RequiredPatterns |-> <<>>,
         ExpectedOutput |-> <<>>, TestsGo |-> <<>>,
         Mode |-> <<"auto">>, Points |-> 5])

\* The identifiers a caller may pass: those of the stored tasks and one that
\* has no task.
TaskIDs == DOMAIN tasks \cup {Cardinality(DOMAIN tasks) + 1}

MainCodes == { <<"a", "b">>, <<"a">> }

\* Inputs of the pattern stage: every required-patterns string and every
\* code up to a length.
StringsUpTo(alphabet, n) == UNION { [1..k -> alphabet] : k \in 0..n }

PatternStrings == StringsUpTo({"a", "b", "|", " "}, MaxPatLen)

PatternCodes == StringsUpTo({"a", "b"}, MaxCodeLen)

\* Inputs of compareOutput: every text up to a length over a letter, a
\* second letter, a blank, LF and CR, and the three documented examples.
OutputStrings == StringsUpTo({"a", "b", " ", "\n", "\r"}, MaxOutLen)

ExamplePairs ==
  { << <<"a", "\n", "b", "\n">>, <<"a", "\n", "\n", "b">> >>,
    << <<"x", "\r", "\n">>, <<"x", "\n">> >>,
    << <<"a", "\n", "b">>, <<"a", "\n", "c">> >> }

PatternTask(required) ==
  [ID |-> 1, LessonID |-> 1, RequiredPatterns |-> required,
   ExpectedOutput |-> <<>>, TestsGo |-> <<"t">>, Mode |-> <<"auto">>,
   Points |-> 10]

\* ------------------------------------------------- stages of Checker.Check
Returned(c) == c.pc = "done"

Stage(c, name) == [c EXCEPT !.trace = Append(@, name)]

\* Mutant of IsManualMode: compares the stored mode without trimming it.
IsManualMode_NoTrim(mode) == mode = <<"manual">>

\* strings.TrimSpace(task.Mode) == "manual"
IsManualMode(mode) == TrimSpace(mode) = <<"manual">>

\* Mutant of LoadStage: the gate compares the stored mode as it is.
LoadStage_ExactMode(c, getErr) ==
  LET c1 == Stage(c, "load") IN
  IF getErr
  THEN [c1 EXCEPT !.pc = "done", !.err = <<"get task: ", "db error">>,
                  !.failed = "load"]
  ELSE IF c.taskID \notin DOMAIN tasks
  THEN [c1 EXCEPT !.pc = "done", !.hasResult = TRUE,
                  !.result = [EmptyResult EXCEPT !.Error = MsgNotFound],
                  !.failed = "load"]
  ELSE LET c2 == Stage([c1 EXCEPT !.task = tasks[c.taskID]], "gate") IN
       IF tasks[c.taskID].Mode = <<"manual">>
       THEN [c2 EXCEPT !.pc = "done", !.hasResult = TRUE,
                       !.result = [EmptyResult EXCEPT !.Error = MsgManual],
                       !.failed = "gate"]
       ELSE [c2 EXCEPT !.pc = "create"]

\* GetTaskByID and the mode gate.
LoadStage(c, getErr) ==
  LET c1 == Stage(c, "load") IN
  IF getErr
  THEN [c1 EXCEPT !.pc = "done", !.err = <<"get task: ", "db error">>,
                  !.failed = "load"]
  ELSE IF c.taskID \notin DOMAIN tasks
  THEN [c1 EXCEPT !.pc = "done", !.hasResult = TRUE,
                  !.result = [EmptyResult EXCEPT !.Error = MsgNotFound],
                  !.failed = "load"]
  ELSE LET c2 == Stage([c1 EXCEPT !.task = tasks[c.taskID]], "gate") IN
       IF IsManualMode(tasks[c.taskID].Mode)
       THEN [c2 EXCEPT !.pc = "done", !.hasResult = TRUE,
                       !.result = [EmptyResult EXCEPT !.Error = MsgManual],
                       !.failed = "gate"]
       ELSE [c2 EXCEPT !.pc = "create"]

\* Mutant of PatternFail: records the failure but goes on to run the code.
PatternFail_RunsAnyway(c, missingPatterns) ==
  [c EXCEPT !.submission.Status = "error",
            !.hasResult = TRUE,
            !.result.Success = FALSE,
            !.result.Error = MsgPatterns,
            !.result.Hints =
                Append(@, UsePrefix \o Join(missingPatterns, <<",", " ">>)),
            !.failed = "pattern",
            !.pc = "run"]

\* Mutant of PatternFail: the hint names only the first missing pattern.
PatternFail_FirstOnly(c, missingPatterns) ==
  [c EXCEPT !.submission.Status = "error",
            !.hasResult = TRUE,
            !.result.Success = FALSE,
            !.result.Error = MsgPatterns,
            !.result.Hints = Append(@, UsePrefix \o missingPatterns[1]),
            !.failed = "pattern",
            !.pc = "update"]

\* Some pattern is missing: the submission is an error, the hint lists the
\* missing patterns, and Check returns after UpdateSubmission.
PatternFail(c, missingPatterns) ==
  [c EXCEPT !.submission.Status = "error",
            !.hasResult = TRUE,
            !.result.Success = FALSE,
            !.result.Error = MsgPatterns,
            !.result.Hints =
                Append(@, UsePrefix \o Join(missingPatterns, <<",", " ">>)),
            !.failed = "pattern",
            !.pc = "update"]

\* Step 1: required patterns (runs right after the pending row is created).
PatternStage(c) ==
  LET missingPatterns == MissingPatterns(c.task.RequiredPatterns, c.code)
      c1 == Stage(c, "pattern")
  IN  IF Len(missingPatterns) > 0
      THEN PatternFail(c1, missingPatterns)
      ELSE [c1 EXCEPT !.hasResult = TRUE, !.pc = "run"]

\* Mutant of OutputFail: the hint does not carry the expected text.
OutputFail_NoExpected(c, expectedOutput) ==
  [c EXCEPT !.submission.Status = "error",
            !.result.Success = FALSE,
            !.result.Error = MsgOutput,
            !.result.Hints = Append(@, ExpectedPrefix),
            !.failed = "compare",
            !.pc = "update"]

\* The output does not match: the submission is an error and the hint shows
\* the expected output.
OutputFail(c, expectedOutput) ==
  [c EXCEPT !.submission.Status = "error",
            !.result.Success = FALSE,
            !.result.Error = MsgOutput,
            !.result.Hints = Append(@, ExpectedPrefix \o expectedOutput),
            !.failed = "compare",
            !.pc = "update"]

\* Step 3: expected output (runs right after Runner.Run returned success).
OutputStage(c, stdout) ==
  IF c.task.ExpectedOutput = <<>>
  THEN c
  ELSE LET actualOutput == TrimSpace(stdout)
           expectedOutput == TrimSpace(c.task.ExpectedOutput)
           c1 == Stage([c EXCEPT !.result.Expected = expectedOutput], "compare")
       IN  IF ~compareOutput(actualOutput, expectedOutput)
           THEN OutputFail(c1, expectedOutput)
           ELSE c1

\* Mutant of AfterOutput: Runner.Check is called even without tests.
AfterOutput_AlwaysTests(c) ==
  IF c.pc = "update" THEN c
  ELSE [c EXCEPT !.pc = "tests"]

\* What follows the output stage when it passed.
AfterOutput(c) ==
  IF c.pc = "update" THEN c
  ELSE IF c.task.TestsGo # <<>> THEN [c EXCEPT !.pc = "tests"]
  ELSE [c EXCEPT !.pc = "query"]

\* Mutant of RunInfraFail: the infra message is not stored in the submission.
RunInfraFail_NoStderr(c, out) ==
  [c EXCEPT !.submission.Status = "error",
            !.hasResult = FALSE,
            !.err = <<"run code: ">> \o out.Err,
            !.failed = "Run",
            !.pc = "update"]

\* Runner.Run returned an infra error.
RunInfraFail(c, out) ==
  [c EXCEPT !.submission.Status = "error",
            !.submission.Stderr = out.Err,
            !.hasResult = FALSE,
            !.err = <<"run code: ">> \o out.Err,
            !.failed = "Run",
            !.pc = "update"]

\* Mutant of RunProgramFail: the submission's status is not set.
RunProgramFail_KeepsPending(c, out) ==
  [c EXCEPT !.submission.Stderr = out.Error,
            !.result.Success = FALSE,
            !.result.Output = out.Stdout,
            !.result.Error = out.Error,
            !.failed = "Run",
            !.pc = "update"]

\* Mutant of RunProgramFail: the pipeline goes on to the next stage.
RunProgramFail_Continues(c, out) ==
  AfterOutput([c EXCEPT !.submission.Status = "error",
                        !.submission.Stderr = out.Error,
                        !.result.Success = FALSE,
                        !.result.Output = out.Stdout,
                        !.result.Error = out.Error,
                        !.failed = "Run"])

\* The program does not compile or fails.
RunProgramFail(c, out) ==
  [c EXCEPT !.submission.Status = "error",
            !.submission.Stderr = out.Error,
            !.result.Success = FALSE,
            !.result.Output = out.Stdout,
            !.result.Error = out.Error,
            !.failed = "Run",
            !.pc = "update"]

\* Step 2: Runner.Run returned out.
RunStage(c, out) ==
  LET c1 == Stage([c EXCEPT !.runOut = out], "Run") IN
  IF out.infra
  THEN RunInfraFail(c1, out)
  ELSE IF ~out.Success
  THEN RunProgramFail(c1, out)
  ELSE AfterOutput(OutputStage([c1 EXCEPT !.submission.Stdout = out.Stdout,
                                          !.result.Output = out.Stdout],
                               out.Stdout))

\* Mutant of TestInfraFail: returns the error without UpdateSubmission.
TestInfraFail_NoUpdate(c, out) ==
  [c EXCEPT !.submission.Status = "error",
            !.submission.Stderr = out.Err,
            !.hasResult = FALSE,
            !.err = <<"run tests: ">> \o out.Err,
            !.failed = "Check",
            !.pc = "done"]

\* Runner.Check returned an infra error.
TestInfraFail(c, out) ==
  [c EXCEPT !.submission.Status = "error",
            !.submission.Stderr = out.Err,
            !.hasResult = FALSE,
            !.err = <<"run tests: ">> \o out.Err,
            !.failed = "Check",
            !.pc = "update"]

\* Mutant of TestFail: failing tests are returned as an error of Check.
TestFail_AsError(c, out) ==
  [c EXCEPT !.submission.Status = "error",
            !.submission.Stderr = out.Error,
            !.hasResult = FALSE,
            !.err = MsgTests,
            !.failed = "Check",
            !.pc = "update"]

\* The tests did not pass.
TestFail(c, out) ==
  [c EXCEPT !.submission.Status = "error",
            !.submission.Stderr = out.Error,
            !.result.Success = FALSE,
            !.result.Error = MsgTests,
            !.result.Hints =
                IF out.Error # <<>> THEN Append(@, out.Error) ELSE @,
            !.failed = "Check",
            !.pc = "update"]

\* Step 4: Runner.Check returned out.
TestStage(c, out) ==
  LET c1 == Stage([c EXCEPT !.testOut = out], "Check") IN
  IF out.infra
  THEN TestInfraFail(c1, out)
  ELSE IF ~out.Success
  THEN TestFail(c1, out)
  ELSE [c1 EXCEPT !.pc = "query"]

\* ------------------------------------------------- the progress repository
\* IsTaskSolvedSuccessfully: some submission of the task has status success.
\* A failed query yields (false, err).
IsTaskSolvedSuccessfully(taskID, ok) ==
  /\ ok
  /\ \E i \in 1..Len(submissions) :
        /\ submissions[i].TaskID = taskID
        /\ submissions[i].Status = "success"

\* SetPracticeDone: credits the points to the lesson.
SetPracticeDone(lessonID, points) ==
  IF lessonID \in DOMAIN practice
  THEN [practice EXCEPT ![lessonID] = @ + points]
  ELSE practice @@ (lessonID :> points)

\* UpdateSubmission: writes status, stdout and stderr of the row.
UpdateSubmission(id, submission) ==
  [submissions EXCEPT ![id] = [@ EXCEPT !.Status = submission.Status,
                                        !.Stdout = submission.Stdout,
                                        !.Stderr = submission.Stderr]]

\* Mutant of ScoringStage: the submission becomes success only inside the
\* block that awards the points.
ScoringStage_OnlyFirst(c, alreadySolved) ==
  LET c1 == Stage([c EXCEPT !.result.Success = TRUE,
                            !.alreadySolved = alreadySolved], "query")
  IN  IF ~alreadySolved
      THEN [c1 EXCEPT !.result.PointsAwarded = c.task.Points,
                      !.submission.Status = "success", !.pc = "credit"]
      ELSE [c1 EXCEPT !.pc = "update"]

\* Mutant of ScoringStage: the lesson is credited whatever the answer.
ScoringStage_AlwaysCredits(c, alreadySolved) ==
  LET c1 == Stage([c EXCEPT !.result.Success = TRUE,
                            !.submission.Status = "success",
                            !.alreadySolved = alreadySolved], "query")
  IN  IF ~alreadySolved
      THEN [c1 EXCEPT !.result.PointsAwarded = c.task.Points, !.pc = "credit"]
      ELSE [c1 EXCEPT !.pc = "credit"]

\* Scoring: all checks passed; alreadySolved is the query's answer.
ScoringStage(c, alreadySolved) ==
  LET c1 == Stage([c EXCEPT !.result.Success = TRUE,
                            !.submission.Status = "success",
                            !.alreadySolved = alreadySolved], "query")
  IN  IF ~alreadySolved
      THEN [c1 EXCEPT !.result.PointsAwarded = c.task.Points, !.pc = "credit"]
      ELSE [c1 EXCEPT !.pc = "update"]

\* handleCheck: the request is validated, Check is called and its outcome is
\* sent.  c is the call once Check has returned.
handleCheck(c) ==
  IF c.taskID = 0 THEN badRequest(<<"Task ID is required">>)
  ELSE IF TrimSpace(c.code) = <<>> THEN badRequest(<<"Code is empty">>)
  ELSE IF c.err # <<>> THEN serverError(c.err)
  ELSE jsonResponse

\* Check returns to handleCheck, which sends the response.
Respond(c) ==
  IF Returned(c) THEN [c EXCEPT !.http = handleCheck(c)] ELSE c

\* ------------------------------------------------------------------ state
\* cmp holds one application of compareOutput: its two arguments and, once
\* it has run, its result.  No application is pending in NoCompare.
NoCompare == [actual |-> <<>>, expected |-> <<>>, done |-> TRUE, result |-> TRUE]

\* No Runner invocation is under way.
NoInvocation == [phase |-> "idle"]

\* No lesson source is under import.
NoLesson ==
  [format |-> "none", hasPoints |-> FALSE, text |-> <<>>, idx |-> 0,
   done |-> TRUE, imports |-> 0]

\* The first process generation, no handleCompleteTask request, no Runner
\* invocation and no lesson source.
InitSide ==
  /\ boot = 1
  /\ completes = <<>>
  /\ inv = NoInvocation
  /\ lesson = NoLesson
  /\ runs = <<>>
  /\ faults = {}

Init ==
  /\ tasks = TaskTable
  /\ submissions = <<>>
  /\ practice = [l \in {} |-> 0]
  /\ calls = <<>>
  /\ limit = MaxCalls
  /\ codePool = MainCodes
  /\ cmp = NoCompare
  /\ InitSide

\* ---------------------------------------------------------------- actions
\* Check(ctx, taskID, code) is invoked: GetTaskByID, then the mode gate.
Start(taskID, code) ==
  /\ Len(calls) < limit
  /\ \E getErr \in BOOLEAN :
        calls' = Append(calls,
                        Respond(LoadStage(NewCall(taskID, code,
                                          {j \in 1..Len(calls) : Returned(calls[j])},
                                          IsTaskSolvedSuccessfully(taskID, TRUE)),
                                  getErr)))
  /\ UNCHANGED <<tasks, submissions, practice, limit, codePool, cmp, side>>

\* Mutant of Create: a failed CreateSubmission is ignored and the pipeline
\* goes on without a row.
Create_IgnoresError(i) ==
  /\ calls[i].pc = "create"
  /\ \E ok \in BOOLEAN :
        IF ok
        THEN /\ submissions' = Append(submissions, calls[i].submission)
             /\ calls' = [calls EXCEPT ![i] =
                            PatternStage(Stage([@ EXCEPT !.subID = Len(submissions) + 1],
                                               "open"))]
        ELSE /\ submissions' = submissions
             /\ calls' = [calls EXCEPT ![i] =
                            [Stage(@, "open") EXCEPT
                                !.pc = "run", !.failed = "open",
                                !.err = <<"create submission: ", "db error">>]]
  /\ UNCHANGED <<tasks, practice, limit, codePool, cmp, side>>

\* CreateSubmission, then the pattern check.
Create(i) ==
  /\ calls[i].pc = "create"
  /\ \E ok \in BOOLEAN :
        IF ok
        THEN /\ submissions' = Append(submissions, calls[i].submission)
             /\ calls' = [calls EXCEPT ![i] =
                            PatternStage(Stage([@ EXCEPT !.subID = Len(submissions) + 1],
                                               "open"))]
        ELSE /\ submissions' = submissions
             /\ calls' = [calls EXCEPT ![i] =
                            Respond([Stage(@, "open") EXCEPT
                                !.pc = "done", !.failed = "open",
                                !.err = <<"create submission: ", "db error">>])]
  /\ UNCHANGED <<tasks, practice, limit, codePool, cmp, side>>

\* Runner.Run, then the output comparison.
Run(i) ==
  /\ calls[i].pc = "run"
  /\ \E out \in RunOutcomes :
        calls' = [calls EXCEPT ![i] = RunStage(@, out)]
  /\ UNCHANGED <<tasks, submissions, practice, limit, codePool, cmp, side>>

\* Runner.Check with the task's tests.
Tests(i) ==
  /\ calls[i].pc = "tests"
  /\ \E out \in CheckOutcomes :
        calls' = [calls EXCEPT ![i] = TestStage(@, out)]
  /\ UNCHANGED <<tasks, submissions, practice, limit, codePool, cmp, side>>

\* Mutant of AlreadySolved: the Checker remembers in the process which tasks
\* were solved and answers from that record.
AlreadySolved_FromMemory(i, ok) ==
  \E j \in 1..Len(calls) :
     /\ calls[j].boot = calls[i].boot
     /\ calls[j].taskID = calls[i].taskID
     /\ calls[j].pc \in {"credit", "update", "done"}
     /\ calls[j].result.Success

\* alreadySolved, _ := c.progressRepo.IsTaskSolvedSuccessfully(taskID)
AlreadySolved(i, ok) == IsTaskSolvedSuccessfully(calls[i].taskID, ok)

\* IsTaskSolvedSuccessfully; its error is discarded.
Query(i) ==
  /\ calls[i].pc = "query"
  /\ \E ok \in BOOLEAN :
        calls' = [calls EXCEPT ![i] =
                     ScoringStage([@ EXCEPT !.solvedAtQuery =
                                      IsTaskSolvedSuccessfully(calls[i].taskID, TRUE),
                                      !.answerLost =
                                         ~ok /\ IsTaskSolvedSuccessfully(calls[i].taskID, TRUE)],
                                  AlreadySolved(i, ok))]
  /\ UNCHANGED <<tasks, submissions, practice, limit, codePool, cmp, side>>

\* SetPracticeDone(task.LessonID, task.Points); its error is not critical.
Credit(i) ==
  /\ calls[i].pc = "credit"
  /\ \E ok \in BOOLEAN :
        /\ practice' =
             IF ok THEN SetPracticeDone(calls[i].task.LessonID, calls[i].task.Points)
             ELSE practice
        /\ calls' = [calls EXCEPT ![i] =
                       [Stage(@, IF ok THEN "credit" ELSE "creditFailed")
                          EXCEPT !.pc = "update",
                                 !.credits =
                                    Append(@, [lessonID |-> calls[i].task.LessonID,
                                               points |-> calls[i].task.Points])]]
  /\ UNCHANGED <<tasks, submissions, limit, codePool, cmp, side>>

\* Mutant of Update: the terminal status is written as a new row.
Update_CreatesAgain(i) ==
  /\ calls[i].pc = "update"
  /\ submissions' = Append(submissions, calls[i].submission)
  /\ calls' = [calls EXCEPT ![i] =
                 Respond([Stage(@, "finalize") EXCEPT !.pc = "done"])]
  /\ UNCHANGED <<tasks, practice, limit, codePool, cmp, side>>

\* Mutant of Update: the terminal state is written to every row of the task.
Update_AllRowsOfTask(i) ==
  /\ calls[i].pc = "update"
  /\ submissions' =
        [k \in 1..Len(submissions) |->
           IF submissions[k].TaskID = calls[i].taskID
           THEN [submissions[k] EXCEPT !.Status = calls[i].submission.Status,
                                       !.Stdout = calls[i].submission.Stdout,
                                       !.Stderr = calls[i].submission.Stderr]
           ELSE submissions[k]]
  /\ calls' = [calls EXCEPT ![i] =
                 Respond([Stage(@, "finalize") EXCEPT !.pc = "done"])]
  /\ UNCHANGED <<tasks, practice, limit, codePool, cmp, side>>

\* UpdateSubmission, then Check returns; what UpdateSubmission returns is
\* not looked at.
Update(i) ==
  /\ calls[i].pc = "update"
  /\ \E ok \in (IF "UpdateSubmission" \in faults THEN BOOLEAN ELSE {TRUE}) :
        submissions' = IF ok THEN UpdateSubmission(calls[i].subID, calls[i].submission)
                       ELSE submissions
  /\ calls' = [calls EXCEPT ![i] =
                 Respond([Stage(@, "finalize") EXCEPT !.pc = "done"])]
  /\ UNCHANGED <<tasks, practice, limit, codePool, cmp, side>>

Next ==
  \/ \E taskID \in TaskIDs, code \in codePool : Start(taskID, code)
  \/ \E i \in 1..Len(calls) : Create(i)
  \/ \E i \in 1..Len(calls) : Run(i)
  \/ \E i \in 1..Len(calls) : Tests(i)
  \/ \E i \in 1..Len(calls) : Query(i)
  \/ \E i \in 1..Len(calls) : Credit(i)
  \/ \E i \in 1..Len(calls) : Update(i)

Spec == Init /\ [][Next]_vars

\* One call of Check on a task whose required patterns, and a code, range
\* over all short strings.
InitPattern ==
  /\ \E required \in PatternStrings : tasks = (1 :> PatternTask(required))
  /\ submissions = <<>>
  /\ practice = [l \in {} |-> 0]
  /\ calls = <<>>
  /\ limit = 1
  /\ codePool = PatternCodes
  /\ cmp = NoCompare
  /\ InitSide

SpecPattern == InitPattern /\ [][Next]_vars

\* compareOutput(actual, expected) is applied to the pending pair.
Compare ==
  /\ ~cmp.done
  /\ cmp' = [cmp EXCEPT !.done = TRUE,
                        !.result = compareOutput(cmp.actual, cmp.expected)]
  /\ UNCHANGED <<tasks, submissions, practice, calls, limit, codePool, side>>

NextCompare == Compare

\* compareOutput alone, on every pair of short texts.
InitCompare ==
  /\ tasks = TaskTable
  /\ submissions = <<>>
  /\ practice = [l \in {} |-> 0]
  /\ calls = <<>>
  /\ limit = 0
  /\ codePool = MainCodes
  /\ InitSide
  /\ \E pair \in (OutputStrings \X OutputStrings) \cup ExamplePairs :
        cmp = [actual |-> pair[1], expected |-> pair[2], done |-> FALSE,
               result |-> FALSE]

SpecCompare == InitCompare /\ [][NextCompare]_vars

\* ------------------------------------------- one invocation of the Runner
\* A context: whether it carries a deadline, and the deadline.
Deadline(at) == [set |-> TRUE, at |-> at]

NoDeadline == [set |-> FALSE, at |-> 0]

\* Mutant of RunContext: the Runner is called with a background context.
RunContext_Background(ctx) == NoDeadline

\* c.runner.Run(ctx, code): the Runner gets the context of Check's caller.
RunContext(ctx) == ctx

\* What the submitted program does: it exits normally, exits with a failure
\* or never terminates, and it may start a child process that never
\* terminates.
Programs ==
  { [ends |-> e, ok |-> o, forks |-> f] :
       e \in BOOLEAN, o \in BOOLEAN, f \in BOOLEAN }

\* Check is about to call Runner.Run for a program under the caller's
\* context.
Called(program, ctx) ==
  [phase |-> "called", program |-> program, caller |-> ctx,
   deadline |-> NoDeadline, now |-> 0, workspace |-> FALSE, procs |-> {},
   forked |-> FALSE, infra |-> FALSE, Success |-> FALSE, cause |-> "none",
   returnedAt |-> 0]

\* Every exit path of the Runner: the process tree is killed, the workspace
\* is released, and the invocation returns.
Release(r, infra, success, cause) ==
  [r EXCEPT !.phase = "returned", !.procs = {}, !.workspace = FALSE,
            !.infra = infra, !.Success = success, !.cause = cause,
            !.returnedAt = r.now]

RunnerUnchanged ==
  UNCHANGED <<tasks, submissions, practice, calls, limit, codePool, cmp,
              boot, completes, lesson, more>>

\* Check calls Runner.Run with its context.
CallRun ==
  /\ inv.phase = "called"
  /\ inv' = [inv EXCEPT !.phase = "entered",
                        !.deadline = RunContext(inv.caller)]
  /\ RunnerUnchanged

\* The workspace is created, or cannot be (an infra failure).
Acquire ==
  /\ inv.phase = "entered"
  /\ \E ok \in BOOLEAN :
        inv' = IF ok THEN [inv EXCEPT !.phase = "acquired", !.workspace = TRUE]
               ELSE Release(inv, TRUE, FALSE, "workspace")
  /\ RunnerUnchanged

\* The sandbox starts the program, or cannot (an infra failure).
Launch ==
  /\ inv.phase = "acquired"
  /\ \E ok \in BOOLEAN :
        inv' = IF ok THEN [inv EXCEPT !.phase = "running", !.procs = {"main"}]
               ELSE Release(inv, TRUE, FALSE, "sandbox")
  /\ RunnerUnchanged

\* The program starts its child process.
Fork ==
  /\ inv.phase = "running"
  /\ inv.program.forks /\ ~inv.forked
  /\ inv' = [inv EXCEPT !.procs = @ \cup {"child"}, !.forked = TRUE]
  /\ RunnerUnchanged

\* The program exits; the Runner reclaims what it left and returns its
\* result.
Exit ==
  /\ inv.phase = "running"
  /\ inv.program.ends
  /\ inv' = Release(inv, FALSE, inv.program.ok, "exit")
  /\ RunnerUnchanged

\* The deadline has come: the process tree is killed and the invocation
\* returns Success=false.
Expire ==
  /\ inv.phase = "running"
  /\ inv.deadline.set /\ inv.now >= inv.deadline.at
  /\ inv' = Release(inv, FALSE, FALSE, "deadline")
  /\ RunnerUnchanged

\* The caller cancels the context.
Cancel ==
  /\ inv.phase = "running"
  /\ inv' = Release(inv, FALSE, FALSE, "cancel")
  /\ RunnerUnchanged

\* Time passes, counted from the call of Run.  An invocation that is under
\* way acts on its deadline before time passes it.
Tick ==
  /\ inv.phase \in {"entered", "acquired", "running"}
  /\ inv.now <= MaxDeadline
  /\ inv.deadline.set => inv.now < inv.deadline.at
  /\ inv' = [inv EXCEPT !.now = @ + 1]
  /\ RunnerUnchanged

\* The steps the Runner and the clock take by themselves.
RunnerStep ==
  CallRun \/ Acquire \/ Launch \/ Fork \/ Exit \/ Expire \/ Tick

NextRunner == RunnerStep \/ Cancel

\* One invocation of Runner.Run, for every program and every deadline of the
\* caller.
InitRunner ==
  /\ tasks = TaskTable
  /\ submissions = <<>>
  /\ practice = [l \in {} |-> 0]
  /\ calls = <<>>
  /\ limit = 0
  /\ codePool = MainCodes
  /\ cmp = NoCompare
  /\ boot = 1
  /\ completes = <<>>
  /\ lesson = NoLesson
  /\ runs = <<>>
  /\ faults = {}
  /\ \E program \in Programs, at \in 1..MaxDeadline :
        inv = Called(program, Deadline(at))

SpecRunner == InitRunner /\ [][NextRunner]_vars /\ WF_vars(RunnerStep)

\* ------------------------------------------------------------ importers
Digits == {"0", "1", "2", "3", "4", "5", "6", "7", "8", "9"}

DigitValue ==
  [ch \in Digits |->
     CHOOSE n \in 0..9 : <<"0", "1", "2", "3", "4", "5", "6", "7", "8", "9">>[n + 1] = ch]

\* The number a run of decimal digits denotes.
RECURSIVE Decimal(_)
Decimal(ds) ==
  IF ds = <<>> THEN 0
  ELSE 10 * Decimal(SubSeq(ds, 1, Len(ds) - 1)) + DigitValue[ds[Len(ds)]]

\* strconv.Atoi: an optional sign and at least one digit, nothing else; on a
\* syntax error the value is 0.  (No text of the lengths used here is out of
\* the range of int.)
Atoi(s) ==
  LET signed == s # <<>> /\ Head(s) \in {"+", "-"}
      body == IF signed THEN Tail(s) ELSE s
      ok == body # <<>> /\ \A k \in 1..Len(body) : body[k] \in Digits
  IN  [value |-> IF ~ok THEN 0
                 ELSE IF signed /\ Head(s) = "-" THEN 0 - Decimal(body)
                 ELSE Decimal(body),
       err |-> ~ok]

\* parseMDXTasks: Points is 10 unless the Task tag has a points attribute,
\* whose value goes through Atoi with the error dropped.
parseMDXPoints(hasPoints, text) ==
  IF hasPoints THEN Atoi(text).value ELSE 10

\* The longest run of digits at the start of a text.
RECURSIVE LeadingDigits(_)
LeadingDigits(s) ==
  IF s # <<>> /\ Head(s) \in Digits
  THEN <<Head(s)>> \o LeadingDigits(Tail(s))
  ELSE <<>>

\* extractPoints: the digits that follow the points marker and optional
\* whitespace; without them, 10 + idx * 5.  text is what follows the marker.
extractPoints(hasPoints, text, idx) ==
  LET digits == LeadingDigits(TrimLeft(text)) IN
  IF hasPoints /\ digits # <<>> /\ ~Atoi(digits).err
  THEN Atoi(digits).value
  ELSE 10 + (idx * 5)

\* The texts of a points attribute or of a points line.
PointsTexts == StringsUpTo({"0", "1", "-", "x", " "}, MaxPointsLen)

\* The lesson sources: MDX with or without a points attribute, Markdown with
\* or without a points line, for the first and the second task of a lesson.
LessonSources ==
  { [format |-> f, hasPoints |-> h, text |-> t, idx |-> n, done |-> FALSE,
     imports |-> 0] :
       f \in {"mdx", "markdown"}, h \in BOOLEAN, t \in PointsTexts, n \in 0..1 }

\* content.Task as the importers fill it (MDX tasks may carry tests, Markdown
\* tasks never do), then CreateTask: an empty mode becomes "auto" and the row
\* gets the next identifier.
ImportedTask(src, id) ==
  LET mode == <<>> IN
  [ID |-> id, LessonID |-> 1, RequiredPatterns |-> <<>>,
   ExpectedOutput |-> <<>>,
   TestsGo |-> IF src.format = "mdx" THEN <<"t">> ELSE <<>>,
   Mode |-> IF TrimSpace(mode) = <<>> THEN <<"auto">> ELSE mode,
   Points |-> IF src.format = "mdx"
              THEN parseMDXPoints(src.hasPoints, src.text)
              ELSE extractPoints(src.hasPoints, src.text, src.idx)]

\* DeleteTasksByLessonID: the tasks of the other lessons stay.
DeleteTasksByLessonID(lessonID) ==
  [t \in { u \in DOMAIN tasks : tasks[u].LessonID # lessonID } |-> tasks[t]]

Max(S) == CHOOSE x \in S : \A y \in S : y <= x

\* The identifier LastInsertId reports for the row CreateTask inserts into
\* kept, the table after the delete.  The INSERT names no identifier and the
\* table's definition is not part of the sources, so the store may number
\* its rows either way: one above the largest identifier stored now (the
\* identifier of a deleted row is given again), or one above every
\* identifier stored before the delete (no identifier is given twice).
NewTaskIDs(kept) ==
  { Max(DOMAIN kept \cup {0}) + 1, Max(DOMAIN tasks \cup {0}) + 1 }

\* importLesson: the tasks of the lesson are deleted, then the task of the
\* lesson source is parsed and stored.
Import ==
  /\ ~lesson.done
  /\ lesson' = [lesson EXCEPT !.done = TRUE, !.imports = @ + 1]
  /\ LET kept == DeleteTasksByLessonID(1) IN
       \E id \in NewTaskIDs(kept) :
          tasks' = kept @@ (id :> ImportedTask(lesson, id))
  /\ UNCHANGED <<submissions, practice, calls, limit, codePool, cmp,
                 boot, completes, inv, more>>

NextPoints == Import \/ Next

\* One lesson source is imported into an empty content repository and one
\* Check call is made.
InitPoints ==
  /\ tasks = [t \in {} |-> NoTask]
  /\ submissions = <<>>
  /\ practice = [l \in {} |-> 0]
  /\ calls = <<>>
  /\ limit = 1
  /\ codePool = { <<"a">> }
  /\ cmp = NoCompare
  /\ boot = 1
  /\ completes = <<>>
  /\ inv = NoInvocation
  /\ runs = <<>>
  /\ faults = {}
  /\ lesson \in LessonSources

SpecPoints == InitPoints /\ [][NextPoints]_vars

\* The importer is run again on the lesson source it has imported.
Rerun ==
  /\ lesson.done /\ lesson.format # "none"
  /\ lesson.imports < MaxImports
  /\ lesson' = [lesson EXCEPT !.done = FALSE]
  /\ UNCHANGED <<tasks, submissions, practice, calls, limit, codePool, cmp,
                 boot, completes, inv, more>>

NextReimport == Import \/ Rerun \/ Next

\* The MDX source of lesson 1, which has one task and has been imported once.
ImportedLesson ==
  [format |-> "mdx", hasPoints |-> FALSE, text |-> <<>>, idx |-> 0,
   done |-> TRUE, imports |-> 1]

\* The content repository after a first import: the task of lesson 1 and,
\* in a course of two lessons, the task of lesson 2 that was stored after
\* it.  Lesson 1 is then imported again, among two Check calls with a code
\* that passes.
InitReimport ==
  /\ \E course \in {1, 2} :
        tasks = [t \in 1..course |->
                   IF t = 1 THEN ImportedTask(ImportedLesson, 1)
                   ELSE [TaskTable[3] EXCEPT !.ID = 2]]
  /\ submissions = <<>>
  /\ practice = [l \in {} |-> 0]
  /\ calls = <<>>
  /\ limit = 2
  /\ codePool = { <<"a">> }
  /\ cmp = NoCompare
  /\ boot = 1
  /\ completes = <<>>
  /\ inv = NoInvocation
  /\ runs = <<>>
  /\ faults = {}
  /\ lesson = ImportedLesson

SpecReimport == InitReimport /\ [][NextReimport]_vars

\* ------------------------------------------------------ process restart
\* The process stops and starts again: NewChecker builds a Checker that holds
\* its three collaborators and nothing else.  The calls under way are lost
\* where they stand; the ledger keeps its rows and its points.
Restart ==
  /\ boot < MaxBoots
  /\ boot' = boot + 1
  /\ calls' = [i \in 1..Len(calls) |->
                 IF Returned(calls[i]) THEN calls[i]
                 ELSE [calls[i] EXCEPT !.pc = "lost"]]
  /\ UNCHANGED <<tasks, submissions, practice, limit, codePool, cmp,
                 completes, inv, lesson, more>>

NextRestart == Next \/ Restart

\* Check calls on the task with every criterion, with a code that has its
\* patterns, across restarts.
InitRestart ==
  /\ tasks = [t \in {1} |-> TaskTable[t]]
  /\ submissions = <<>>
  /\ practice = [l \in {} |-> 0]
  /\ calls = <<>>
  /\ limit = MaxCalls
  /\ codePool = { <<"a", "b">> }
  /\ cmp = NoCompare
  /\ InitSide

SpecRestart == InitRestart /\ [][NextRestart]_vars

\* ------------------------------------------------ a failing final update
\* Check calls on the task with every criterion, with a code that has its
\* patterns, against a ledger whose UpdateSubmission may fail too.
InitUpdateFault ==
  /\ tasks = [t \in {1} |-> TaskTable[t]]
  /\ submissions = <<>>
  /\ practice = [l \in {} |-> 0]
  /\ calls = <<>>
  /\ limit = MaxCalls
  /\ codePool = { <<"a", "b">> }
  /\ cmp = NoCompare
  /\ boot = 1
  /\ completes = <<>>
  /\ inv = NoInvocation
  /\ lesson = NoLesson
  /\ runs = <<>>
  /\ faults = {"UpdateSubmission"}

SpecUpdateFault == InitUpdateFault /\ [][Next]_vars

\* ------------------------------------------------- handleCompleteTask
\* One request to handleCompleteTask: its task identifier, its position, its
\* locals, whether its SetPracticeDone took effect, what it sends, and the
\* requests that had been answered when it arrived.
NewComplete(taskID, prior) ==
  [taskID |-> taskID, pc |-> "query", task |-> NoTask,
   alreadySolved |-> FALSE, pointsAwarded |-> 0, created |-> FALSE,
   credited |-> FALSE, http |-> NoResponse, prior |-> prior]

Answer(r, response) == [r EXCEPT !.pc = "done", !.http = response]

\* progress.Submission{TaskID, Code: "[manual]", Status: "success"}
ManualSubmission(taskID) ==
  [TaskID |-> taskID, Code |-> <<"[manual]">>, Status |-> "success",
   Stdout |-> <<>>, Stderr |-> <<>>]

\* The identifiers a complete request may carry: those of Check and one
\* that is not positive.
CompleteIDs == TaskIDs \cup {0}

\* The identifier is parsed, the task is loaded and its mode is checked.
BeginComplete(taskID) ==
  /\ Len(completes) < MaxCompletes
  /\ \E getErr \in BOOLEAN :
        LET r == NewComplete(taskID,
                             { j \in 1..Len(completes) : completes[j].pc = "done" })
        IN  completes' = Append(completes,
              IF taskID <= 0 THEN Answer(r, badRequest(<<"Invalid task ID">>))
              ELSE IF getErr
              THEN Answer(r, serverError(<<"get task: ", "db error">>))
              ELSE IF taskID \notin DOMAIN tasks THEN Answer(r, notFound)
              ELSE IF ~IsManualMode(tasks[taskID].Mode)
              THEN Answer([r EXCEPT !.task = tasks[taskID]],
                          badRequest(<<"Task is not manual">>))
              ELSE [r EXCEPT !.task = tasks[taskID]])
  /\ UNCHANGED <<tasks, submissions, practice, calls, limit, codePool, cmp,
                 boot, inv, lesson, more>>

\* IsTaskSolvedSuccessfully; a solved task is answered with no points.
CompleteQuery(k) ==
  /\ completes[k].pc = "query"
  /\ \E ok \in BOOLEAN :
        completes' = [completes EXCEPT ![k] =
           IF ~ok THEN Answer(@, serverError(<<"query: ", "db error">>))
           ELSE IF IsTaskSolvedSuccessfully(completes[k].taskID, TRUE)
           THEN Answer([@ EXCEPT !.alreadySolved = TRUE], jsonResponse)
           ELSE [@ EXCEPT !.pc = "create"]]
  /\ UNCHANGED <<tasks, submissions, practice, calls, limit, codePool, cmp,
                 boot, inv, lesson, more>>

\* CreateSubmission of the success row.
CompleteCreate(k) ==
  /\ completes[k].pc = "create"
  /\ \E ok \in BOOLEAN :
        IF ok
        THEN /\ submissions' =
                  Append(submissions, ManualSubmission(completes[k].taskID))
             /\ completes' = [completes EXCEPT ![k] =
                                [@ EXCEPT !.pc = "credit", !.created = TRUE]]
        ELSE /\ submissions' = submissions
             /\ completes' = [completes EXCEPT ![k] =
                   Answer(@, serverError(<<"create submission: ", "db error">>))]
  /\ UNCHANGED <<tasks, practice, calls, limit, codePool, cmp, boot, inv,
                 lesson, more>>

\* SetPracticeDone(task.LessonID, task.Points), then the response with the
\* points.
CompleteCredit(k) ==
  /\ completes[k].pc = "credit"
  /\ \E ok \in BOOLEAN :
        IF ok
        THEN /\ practice' = SetPracticeDone(completes[k].task.LessonID,
                                            completes[k].task.Points)
             /\ completes' = [completes EXCEPT ![k] =
                   Answer([@ EXCEPT !.credited = TRUE,
                                    !.pointsAwarded = completes[k].task.Points],
                          jsonResponse)]
        ELSE /\ practice' = practice
             /\ completes' = [completes EXCEPT ![k] =
                   Answer(@, serverError(<<"set practice done: ", "db error">>))]
  /\ UNCHANGED <<tasks, submissions, calls, limit, codePool, cmp, boot, inv,
                 lesson, more>>

NextManual ==
  \/ \E taskID \in CompleteIDs : BeginComplete(taskID)
  \/ \E k \in 1..Len(completes) : CompleteQuery(k)
  \/ \E k \in 1..Len(completes) : CompleteCreate(k)
  \/ \E k \in 1..Len(completes) : CompleteCredit(k)

\* Complete requests alone: no Check call is made.
InitManual ==
  /\ tasks = TaskTable
  /\ submissions = <<>>
  /\ practice = [l \in {} |-> 0]
  /\ calls = <<>>
  /\ limit = 0
  /\ codePool = MainCodes
  /\ cmp = NoCompare
  /\ InitSide

SpecManual == InitManual /\ [][NextManual]_vars

\* ------------------------------------------------------- the stored modes
\* The modes a task may be created with.
ModeInputs ==
  { <<>>, <<" ">>, <<"auto">>, <<"manual">>, <<" ", "manual">>,
    <<"manual", " ">>, <<"Manual">>, <<"manual", "x">> }

\* CreateTask: a blank mode is stored as "auto", any other as it is.
CreateTaskMode(mode) == IF TrimSpace(mode) = <<>> THEN <<"auto">> ELSE mode

\* Check calls and complete requests on the same stored task.
NextModes == Next \/ NextManual

\* One task with every criterion, created with each of the modes; one Check
\* call with a code that has its patterns, beside the complete requests.
InitModes ==
  /\ \E mode \in ModeInputs :
        tasks = (1 :> [TaskTable[1] EXCEPT !.Mode = CreateTaskMode(mode)])
  /\ submissions = <<>>
  /\ practice = [l \in {} |-> 0]
  /\ calls = <<>>
  /\ limit = 1
  /\ codePool = { <<"a", "b">> }
  /\ cmp = NoCompare
  /\ InitSide

SpecModes == InitModes /\ [][NextModes]_vars

\* --------------------------------------------------------------- handleRun
\* Checker.Run: the code goes to Runner.Run and what the Runner returns is
\* returned as it is.
CheckerRun(code, out) == out

\* The codes a run request may carry: those of Check, an empty one and a
\* blank one.
RunCodes == codePool \cup { <<>>, <<" ">> }

\* One request to handleRun: whether its body was valid JSON, its code,
\* whether Checker.Run was called, what it returned and what was sent.
RunRequest(valid, code, out) ==
  LET called == valid /\ TrimSpace(code) # <<>>
      result == CheckerRun(code, out)
  IN  [valid |-> valid, code |-> code, called |-> called,
       result |-> IF called THEN result ELSE NoOutcome,
       http |-> IF ~valid THEN badRequest(<<"Invalid JSON">>)
                ELSE IF TrimSpace(code) = <<>> THEN badRequest(<<"Code is empty">>)
                ELSE IF result.infra THEN serverError(result.Err)
                ELSE jsonResponse]

\* Mutant of handleRun: the run is recorded as an attempt, the way Check
\* records one.
handleRun_Records(valid, code) ==
  /\ Len(runs) < MaxRuns
  /\ \E out \in RunOutcomes : runs' = Append(runs, RunRequest(valid, code, out))
  /\ submissions' = Append(submissions, NewSubmission(0, code))
  /\ UNCHANGED <<tasks, practice, calls, limit, codePool, cmp,
                 boot, completes, inv, lesson, faults>>

\* handleRun: the body is decoded, a blank code is refused, Checker.Run is
\* called and its outcome is sent.
handleRun(valid, code) ==
  /\ Len(runs) < MaxRuns
  /\ \E out \in RunOutcomes : runs' = Append(runs, RunRequest(valid, code, out))
  /\ UNCHANGED <<tasks, submissions, practice, calls, limit, codePool, cmp,
                 boot, completes, inv, lesson, faults>>

NextRun ==
  \/ \E valid \in BOOLEAN, code \in RunCodes : handleRun(valid, code)
  \/ Next

\* Run requests beside one Check call.
InitRun ==
  /\ tasks = TaskTable
  /\ submissions = <<>>
  /\ practice = [l \in {} |-> 0]
  /\ calls = <<>>
  /\ limit = 1
  /\ codePool = MainCodes
  /\ cmp = NoCompare
  /\ InitSide

SpecRun == InitRun /\ [][NextRun]_vars

\* ================================================================= claims
CallIDs == 1..Len(calls)

Events(c) == { c.trace[k] : k \in 1..Len(c.trace) }

\* The call returned a CheckResult with Success=true and a nil error.
PassedAll(c) ==
  Returned(c) /\ c.hasResult /\ c.err = <<>> /\ c.result.Success

Awarded(c) == Returned(c) /\ c.hasResult /\ c.result.PointsAwarded > 0

Concurrent(i, j) == i # j /\ i \notin calls[j].prior /\ j \notin calls[i].prior

\* C1: over any sequence and interleaving of Check calls for one task, at
\* most one call returns PointsAwarded>0 and the task's lesson is credited at
\* most once.
C1_PointsAtMostOnce ==
  \A t \in DOMAIN tasks :
     /\ Cardinality({ i \in CallIDs : calls[i].taskID = t /\ Awarded(calls[i]) }) <= 1
     /\ Cardinality({ i \in CallIDs : calls[i].taskID = t
                                      /\ "credit" \in Events(calls[i]) }) <= 1

\* C2: two concurrent Check calls for the same not-yet-solved task that both
\* pass every stage: exactly one of the two results has PointsAwarded>0.
C2_RaceExactlyOne ==
  \A i, j \in CallIDs :
     ( /\ Concurrent(i, j)
       /\ calls[i].taskID = calls[j].taskID
       /\ ~calls[i].solvedBefore /\ ~calls[j].solvedBefore
       /\ PassedAll(calls[i]) /\ PassedAll(calls[j]) )
     => (Awarded(calls[i]) # Awarded(calls[j]))

\* C3: two Check calls for a task made one after the other, both passing all
\* stages: PointsAwarded>0 on the first and not on the second.
C3_SequentialExactlyFirst ==
  \A i, j \in CallIDs :
     ( /\ i \in calls[j].prior
       /\ calls[i].taskID = calls[j].taskID
       /\ ~calls[i].solvedBefore
       /\ PassedAll(calls[i]) /\ PassedAll(calls[j]) )
     => (Awarded(calls[i]) /\ ~Awarded(calls[j]))

\* The ledger's row of the call's submission.
Row(c) == submissions[c.subID]

StageRank ==
  [load |-> 1, gate |-> 2, open |-> 3, pattern |-> 4, Run |-> 5,
   compare |-> 6, Check |-> 7, query |-> 8, credit |-> 9,
   creditFailed |-> 9, finalize |-> 10]

\* C6: within one Check call the stages occur strictly in the order load,
\* mode gate, open submission, pattern check, Runner.Run, output comparison,
\* Runner.Check, scoring, finalize; once a stage has failed, no action of a
\* later stage (Runner.Run, Runner.Check, the already-solved query, point
\* crediting) occurs in that call.
C6_StagesInOrder ==
  \A i \in CallIDs :
     LET t == calls[i].trace IN
     /\ \A k \in 1..(Len(t) - 1) : StageRank[t[k]] < StageRank[t[k + 1]]
     /\ calls[i].failed # "none" =>
           \A k \in 1..Len(t) :
              \/ StageRank[t[k]] <= StageRank[calls[i].failed]
              \/ t[k] = "finalize"

C6_Witness ==
  \E i, j \in CallIDs :
     /\ Returned(calls[i]) /\ calls[i].failed = "Run"
     /\ calls[i].task.TestsGo # <<>>
     /\ Returned(calls[j]) /\ calls[j].failed = "none"
     /\ calls[j].trace = <<"load", "gate", "open", "pattern", "Run", "compare",
                           "Check", "query", "credit", "finalize">>

\* The entries of a required-patterns string: the maximal runs between '|'
\* delimiters, each without its leading and trailing whitespace.
Bars(s) == { k \in 1..Len(s) : s[k] = "|" }

Fences(s) == Bars(s) \cup {0, Len(s) + 1}

Stripped(s) ==
  LET keep == { k \in 1..Len(s) : s[k] \notin Space } IN
  IF keep = {} THEN <<>>
  ELSE SubSeq(s, CHOOSE lo \in keep : \A k \in keep : lo <= k,
                 CHOOSE hi \in keep : \A k \in keep : k <= hi)

\* Entry that starts after fence lo (it ends before the next fence).
EntryAfter(s, lo) ==
  LET hi == CHOOSE h \in Fences(s) :
               h > lo /\ \A g \in Fences(s) : g > lo => h <= g
  IN  Stripped(SubSeq(s, lo + 1, hi - 1))

Occurs(e, code) ==
  \E off \in 0..Len(code) :
     /\ off + Len(e) <= Len(code)
     /\ \A k \in 1..Len(e) : code[off + k] = e[k]

\* The fences after which a non-empty entry starts that the code lacks.
AbsentAt(required, code) ==
  { lo \in Fences(required) \ {Len(required) + 1} :
       /\ EntryAfter(required, lo) # <<>>
       /\ ~Occurs(EntryAfter(required, lo), code) }

\* C7: if any required pattern is absent from the submitted code, the Runner
\* receives no call (neither Run nor Check) during that Check call and the
\* result has Success=false.
C7_MissingPatternNoRunner ==
  \A i \in CallIDs :
     AbsentAt(calls[i].task.RequiredPatterns, calls[i].code) # {}
     => /\ Events(calls[i]) \cap {"Run", "Check"} = {}
        /\ (Returned(calls[i]) /\ calls[i].subID # 0)
              => ( /\ calls[i].hasResult
                   /\ calls[i].err = <<>>
                   /\ ~calls[i].result.Success )

C7_Witness ==
  \E i \in CallIDs :
     /\ AbsentAt(calls[i].task.RequiredPatterns, calls[i].code) # {}
     /\ Returned(calls[i]) /\ calls[i].subID # 0
     /\ "finalize" \in Events(calls[i])

\* C8: the pattern stage fails if and only if some entry of
\* Task.RequiredPatterns (split on '|', trimmed, empty entries dropped) does
\* not occur as a literal substring of the code; blank entries never cause a
\* failure.
C8_PatternFailsIffAbsent ==
  \A i \in CallIDs :
     "pattern" \in Events(calls[i])
     => ( (calls[i].failed = "pattern")
          <=> (AbsentAt(calls[i].task.RequiredPatterns, calls[i].code) # {}) )

\* A failing pattern stage on a string with a blank entry and a padded entry.
C8_Witness ==
  \E i \in CallIDs :
     LET r == calls[i].task.RequiredPatterns IN
     /\ calls[i].failed = "pattern"
     /\ Returned(calls[i])
     /\ \E lo \in Fences(r) \ {Len(r) + 1} : EntryAfter(r, lo) = <<>>
     /\ \E k \in 1..Len(r) : r[k] = " "

\* The missing entries, in the order of the required-patterns string.
RECURSIVE AbsentFrom(_, _, _)
AbsentFrom(required, code, lo) ==
  IF lo > Len(required) THEN <<>>
  ELSE LET rest == AbsentFrom(required, code,
                              CHOOSE h \in Fences(required) :
                                 h > lo /\ \A g \in Fences(required) : g > lo => h <= g)
       IN  IF lo \in AbsentAt(required, code)
           THEN <<EntryAfter(required, lo)>> \o rest
           ELSE rest

\* The items of a hint "Use: p1, p2, ...".
RECURSIVE HintItems(_, _)
HintItems(body, cur) ==
  IF body = <<>> THEN <<cur>>
  ELSE IF Len(body) >= 2 /\ body[1] = "," /\ body[2] = " "
       THEN <<cur>> \o HintItems(SubSeq(body, 3, Len(body)), <<>>)
       ELSE HintItems(Tail(body), Append(cur, Head(body)))

\* C9: when the pattern stage fails, the hints of the CheckResult name every
\* missing pattern verbatim and no pattern that the code contains, however
\* many are missing.
C9_HintsNameMissing ==
  \A i \in CallIDs :
     calls[i].failed = "pattern"
     => LET hints == calls[i].result.Hints IN
        /\ Len(hints) = 1
        /\ SubSeq(hints[1], 1, Len(UsePrefix)) = UsePrefix
        /\ HintItems(SubSeq(hints[1], Len(UsePrefix) + 1, Len(hints[1])), <<>>)
             = AbsentFrom(calls[i].task.RequiredPatterns, calls[i].code, 0)

\* Two patterns missing and one present.
C9_Witness ==
  \E i \in CallIDs :
     LET r == calls[i].task.RequiredPatterns IN
     /\ calls[i].failed = "pattern"
     /\ Returned(calls[i])
     /\ Cardinality(AbsentAt(r, calls[i].code)) = 2
     /\ calls[i].code # <<>>

\* C10: for a task whose mode is manual every Check call returns
\* Success=false with the same fixed message whatever the code, creates no
\* Submission, invokes no Runner operation and awards no points.
C10_ManualGate ==
  \A i \in CallIDs :
     ( /\ Returned(calls[i])
       /\ calls[i].taskID \in DOMAIN tasks
       /\ Stripped(tasks[calls[i].taskID].Mode) = <<"manual">>
       /\ calls[i].err = <<>> )
     => /\ calls[i].hasResult
        /\ calls[i].result = [EmptyResult EXCEPT !.Error = MsgManual]
        /\ calls[i].subID = 0
        /\ Events(calls[i]) \subseteq {"load", "gate"}

C10_Witness ==
  \E i, j \in CallIDs :
     /\ Returned(calls[i]) /\ Returned(calls[j])
     /\ calls[i].taskID = calls[j].taskID
     /\ calls[i].code # calls[j].code
     /\ IsManualMode(calls[i].task.Mode)
     /\ calls[i].result = calls[j].result
     /\ calls[i].result.Error = MsgManual

\* The three classes of outcome of a returned call.
IsSystemError(c) == c.err # <<>>

IsVerificationFailure(c) == c.err = <<>> /\ c.hasResult /\ ~c.result.Success

\* C11: a Check call for an identifier that has no task (the lookup itself
\* working) yields a not-found outcome that is neither a verification failure
\* (a CheckResult with Success=false) nor a system error (a non-nil error).
C11_NotFoundDistinct ==
  \A i \in CallIDs :
     ( /\ Returned(calls[i])
       /\ calls[i].taskID \notin DOMAIN tasks
       /\ calls[i].err # <<"get task: ", "db error">> )
     => /\ ~IsVerificationFailure(calls[i])
        /\ ~IsSystemError(calls[i])

\* C12: the pending Submission row is created in the ledger before any
\* Runner.Run or Runner.Check of the call; if creating the row fails, no
\* Runner operation is invoked in that call.
C12_RowBeforeRunner ==
  \A i \in CallIDs :
     LET c == calls[i] IN
     /\ (c.pc \in {"run", "tests"} \/ Events(c) \cap {"Run", "Check"} # {})
           => /\ c.subID \in 1..Len(submissions)
              /\ submissions[c.subID].TaskID = c.taskID
              /\ submissions[c.subID].Code = c.code
              /\ \E k \in 1..Len(c.trace) :
                    /\ c.trace[k] = "open"
                    /\ \A m \in 1..Len(c.trace) :
                          c.trace[m] \in {"Run", "Check"} => k < m
     /\ c.pc \in {"run", "tests"} => submissions[c.subID].Status = "pending"
     /\ c.subID = 0 => Events(c) \cap {"Run", "Check"} = {}

C12_Witness ==
  \E i, j \in CallIDs :
     /\ Returned(calls[i]) /\ calls[i].failed = "open" /\ calls[i].subID = 0
     /\ calls[j].pc = "tests" /\ submissions[calls[j].subID].Status = "pending"

C14_ProgramFailure ==
  \A i \in CallIDs :
     LET c == calls[i] IN
     (Returned(c) /\ "Run" \in Events(c) /\ ~c.runOut.infra /\ ~c.runOut.Success)
     => /\ c.err = <<>> /\ c.hasResult
        /\ ~c.result.Success
        /\ c.result.Output = c.runOut.Stdout
        /\ c.result.Error = c.runOut.Error
        /\ c.result.PointsAwarded = 0
        /\ Row(c).Status = "error"
        /\ Row(c).Stderr = c.runOut.Stderr
        /\ Events(c) \cap {"compare", "Check", "query", "credit", "creditFailed"} = {}

\* The lines of a text, by position: a line runs from one fence (the start
\* of the text or an LF) to the next (an LF or the end of the text).
LineFences(s) == { k \in 1..Len(s) : s[k] = "\n" } \cup {0, Len(s) + 1}

FenceAfter(s, lo) ==
  CHOOSE h \in LineFences(s) :
     h > lo /\ \A g \in LineFences(s) : g > lo => h <= g

\* The line after fence lo without its line ending (LF, or CR LF) and without
\* trailing blanks and tabs.
LineAfter(s, lo) ==
  LET hi == FenceAfter(s, lo)
      raw == SubSeq(s, lo + 1, hi - 1)
      cut == IF hi <= Len(s) /\ raw # <<>> /\ raw[Len(raw)] = "\r"
             THEN SubSeq(raw, 1, Len(raw) - 1)
             ELSE raw
      keep == { k \in 1..Len(cut) : cut[k] \notin {" ", "\t"} }
  IN  IF keep = {} THEN <<>>
      ELSE SubSeq(cut, 1, CHOOSE hi2 \in keep : \A k \in keep : k <= hi2)

\* All lines from fence lo on; with onlyText, the blank ones are left out.
RECURSIVE LinesFrom(_, _, _)
LinesFrom(s, lo, onlyText) ==
  IF lo > Len(s) THEN <<>>
  ELSE LET rest == LinesFrom(s, FenceAfter(s, lo), onlyText)
       IN  IF onlyText /\ LineAfter(s, lo) = <<>>
           THEN rest
           ELSE <<LineAfter(s, lo)>> \o rest

\* The trimmed non-blank lines from fence lo on.
RECURSIVE TrimmedLinesFrom(_, _)
TrimmedLinesFrom(s, lo) ==
  IF lo > Len(s) THEN <<>>
  ELSE LET line == Stripped(SubSeq(s, lo + 1, FenceAfter(s, lo) - 1))
           rest == TrimmedLinesFrom(s, FenceAfter(s, lo))
       IN  IF line = <<>> THEN rest ELSE <<line>> \o rest

\* C15: compareOutput tolerates blank-line and line-ending differences but
\* not content differences: compare("a\nb\n", "a\n\nb") and
\* compare("x\r\n", "x\n") are true, compare("a\nb", "a\nc") is false, and two
\* texts that differ only in blank lines, CR LF against LF, or trailing
\* whitespace of lines compare equal.
C15_CompareTolerance ==
  cmp.done =>
     /\ (cmp.actual = <<"a", "\n", "b", "\n">> /\ cmp.expected = <<"a", "\n", "\n", "b">>)
           => cmp.result
     /\ (cmp.actual = <<"x", "\r", "\n">> /\ cmp.expected = <<"x", "\n">>)
           => cmp.result
     /\ (cmp.actual = <<"a", "\n", "b">> /\ cmp.expected = <<"a", "\n", "c">>)
           => ~cmp.result
     /\ (LinesFrom(cmp.actual, 0, TRUE) = LinesFrom(cmp.expected, 0, TRUE))
           => cmp.result

C15_Witness ==
  /\ cmp.done /\ cmp.result
  /\ cmp.actual = <<"a", "\n", "b", "\n">>
  /\ cmp.expected = <<"a", "\n", "\n", "b">>

\* C16: compareOutput(actual, expected) is true exactly when, with line
\* endings unified and trailing whitespace of lines stripped, the texts are
\* equal or their non-blank lines are equal in number and pairwise equal
\* after trimming; it is false whenever the sequences of trimmed non-blank
\* lines differ.
C16_CompareExactly ==
  cmp.done =>
     /\ cmp.result <=>
           \/ LinesFrom(cmp.actual, 0, FALSE) = LinesFrom(cmp.expected, 0, FALSE)
           \/ TrimmedLinesFrom(cmp.actual, 0) = TrimmedLinesFrom(cmp.expected, 0)
     /\ TrimmedLinesFrom(cmp.actual, 0) # TrimmedLinesFrom(cmp.expected, 0)
           => ~cmp.result

\* The forgiving comparison decides: the normalized texts differ, yet equal.
C16_Witness ==
  /\ cmp.done /\ cmp.result
  /\ LinesFrom(cmp.actual, 0, FALSE) # LinesFrom(cmp.expected, 0, FALSE)
  /\ Len(TrimmedLinesFrom(cmp.actual, 0)) = 2

\* Runner.Run returned a successful run to the call.
RunSucceeded(c) == "Run" \in Events(c) /\ ~c.runOut.infra /\ c.runOut.Success

\* The program's output does not match the task's expected output.
OutputMismatch(c) ==
  /\ RunSucceeded(c)
  /\ c.task.ExpectedOutput # <<>>
  /\ TrimmedLinesFrom(c.runOut.Stdout, 0) # TrimmedLinesFrom(c.task.ExpectedOutput, 0)

C18_EmptyCriterionSkipped ==
  \A i \in CallIDs :
     LET c == calls[i] IN
     /\ "compare" \in Events(c) <=> (RunSucceeded(c) /\ c.task.ExpectedOutput # <<>>)
     /\ "Check" \in Events(c) => (c.task.TestsGo # <<>> /\ RunSucceeded(c)
                                  /\ ~OutputMismatch(c))
     /\ (c.pc \in {"query", "credit"} \/ Events(c) \cap {"query"} # {})
           => /\ RunSucceeded(c)
              /\ c.task.TestsGo # <<>> <=> "Check" \in Events(c)
     /\ ( /\ Returned(c) /\ "Run" \in Events(c)
          /\ c.task.RequiredPatterns = <<>>
          /\ c.task.ExpectedOutput = <<>>
          /\ c.task.TestsGo = <<>> )
        => (PassedAll(c) <=> RunSucceeded(c))

C18_Witness ==
  \E i \in CallIDs :
     /\ Returned(calls[i]) /\ PassedAll(calls[i])
     /\ calls[i].task.RequiredPatterns = <<>>
     /\ calls[i].task.ExpectedOutput = <<>>
     /\ calls[i].task.TestsGo = <<>>
     /\ calls[i].trace = <<"load", "gate", "open", "pattern", "Run", "query",
                           "credit", "finalize">>

\* What a failed run tells about the failure: its error string or, when that
\* is empty, its stderr.
FailureDetail(out) == IF out.Error # <<>> THEN out.Error ELSE out.Stderr

\* C19: an infra error of Runner.Check makes Check return a non-nil error and
\* no CheckResult; a test run with Success=false makes Check return a
\* CheckResult with Success=false whose hints include the failure detail; in
\* both cases the Submission is error and no points are awarded.
C19_TestStage ==
  \A i \in CallIDs :
     LET c == calls[i] IN
     (Returned(c) /\ "Check" \in Events(c))
     => /\ c.testOut.infra
             => /\ c.err = <<"run tests: ">> \o c.testOut.Err
                /\ ~c.hasResult
        /\ (~c.testOut.infra /\ ~c.testOut.Success)
             => /\ c.err = <<>> /\ c.hasResult
                /\ ~c.result.Success
                /\ \E k \in 1..Len(c.result.Hints) :
                      c.result.Hints[k] = FailureDetail(c.testOut)
        /\ (c.testOut.infra \/ ~c.testOut.Success)
             => /\ Row(c).Status = "error"
                /\ c.result.PointsAwarded = 0
                /\ Events(c) \cap {"query", "credit", "creditFailed"} = {}

\* C20: on a call that passes all stages PointsAwarded is Task.points if the
\* ledger held no success of the task when the call asked, and 0 otherwise;
\* on every call that does not pass all stages PointsAwarded is 0.
C20_AllOrNothing ==
  \A i \in CallIDs :
     LET c == calls[i] IN
     Returned(c)
     => /\ PassedAll(c)
             => c.result.PointsAwarded =
                   IF c.solvedAtQuery THEN 0 ELSE c.task.Points
        /\ ~PassedAll(c) => c.result.PointsAwarded = 0

\* The submitted code meets every criterion of the task: no required pattern
\* is absent, the run succeeded, the output matches, the tests (if any) passed.
MeetsCriteria(c) ==
  /\ AbsentAt(c.task.RequiredPatterns, c.code) = {}
  /\ RunSucceeded(c)
  /\ ~OutputMismatch(c)
  /\ c.task.TestsGo # <<>>
        => ("Check" \in Events(c) /\ ~c.testOut.infra /\ c.testOut.Success)

ProgramFailed(c) == "Run" \in Events(c) /\ ~c.runOut.infra /\ ~c.runOut.Success

TestsFailed(c) == "Check" \in Events(c) /\ ~c.testOut.infra /\ ~c.testOut.Success

PatternMissing(c) ==
  c.subID # 0 /\ AbsentAt(c.task.RequiredPatterns, c.code) # {}

VerificationFailed(c) ==
  PatternMissing(c) \/ ProgramFailed(c) \/ OutputMismatch(c) \/ TestsFailed(c)

\* C22: every verification failure (missing patterns, non-compiling or
\* failing program, wrong output, failing tests) is returned by Check as a
\* non-nil CheckResult with Success=false and a nil error, never as an
\* operation error.
C22_FailureIsResult ==
  \A i \in CallIDs :
     LET c == calls[i] IN
     (Returned(c) /\ VerificationFailed(c))
     => /\ c.hasResult
        /\ c.err = <<>>
        /\ ~c.result.Success

\* A call with failing tests and a call with a failing program have returned.
C22_Witness ==
  \E i, j \in CallIDs :
     /\ Returned(calls[i]) /\ TestsFailed(calls[i]) /\ calls[i].hasResult
     /\ Returned(calls[j]) /\ ProgramFailed(calls[j]) /\ calls[j].hasResult

\* A hint that tells about the failure of the call: it names the missing
\* patterns, shows the expected output, or carries the detail of the failed
\* run or of the failed tests.
SpecificHint(c, hint) ==
  \/ /\ PatternMissing(c)
     /\ \A lo \in AbsentAt(c.task.RequiredPatterns, c.code) :
           Occurs(EntryAfter(c.task.RequiredPatterns, lo), hint)
  \/ /\ ProgramFailed(c)
     /\ FailureDetail(c.runOut) # <<>>
     /\ Occurs(FailureDetail(c.runOut), hint)
  \/ /\ OutputMismatch(c)
     /\ Occurs(c.task.ExpectedOutput, hint)
  \/ /\ TestsFailed(c)
     /\ FailureDetail(c.testOut) # <<>>
     /\ Occurs(FailureDetail(c.testOut), hint)

\* C23: every CheckResult returned for a verification failure (missing
\* patterns, non-compiling or failing program, wrong output, failing tests)
\* carries at least one hint specific to that failure.
C23_FailureHasHint ==
  \A i \in CallIDs :
     LET c == calls[i] IN
     (Returned(c) /\ c.hasResult /\ VerificationFailed(c))
     => \E k \in 1..Len(c.result.Hints) : SpecificHint(c, c.result.Hints[k])

\* C25: each award decision credits the task's owning lesson exactly once: a
\* call invokes the ledger's crediting operation once, with (Task.lessonID,
\* Task.points), when it decides to award, and not at all when it decides not
\* to award or fails an earlier stage.
C25_CreditOncePerAward ==
  \A i \in CallIDs :
     LET c == calls[i]
         decided == "query" \in Events(c)
     IN  /\ Len(c.credits) <= 1
         /\ (decided /\ ~c.alreadySolved /\ Returned(c))
               => c.credits = << [lessonID |-> tasks[c.taskID].LessonID,
                                  points |-> tasks[c.taskID].Points] >>
         /\ (~decided \/ c.alreadySolved) => c.credits = <<>>

\* One call awarded and credited, another decided not to award.
C25_Witness ==
  \E i, j \in CallIDs :
     /\ Returned(calls[i]) /\ Len(calls[i].credits) = 1
     /\ calls[i].result.PointsAwarded = tasks[calls[i].taskID].Points
     /\ Returned(calls[j]) /\ "query" \in Events(calls[j])
     /\ calls[j].alreadySolved /\ calls[j].credits = <<>>

\* C28: when Check returns a system/infra error, the check endpoint reports a
\* generic failure (HTTP 500 with a fixed body) and never a CheckResult; the
\* infra message is not included in the response.
C28_GenericFailure ==
  \A i \in CallIDs :
     LET c == calls[i] IN
     (Returned(c) /\ c.err # <<>>)
     => /\ c.http.status = StatusInternalServerError
        /\ c.http.kind = "text"
        /\ c.http.text = <<"Internal Server Error", "\n">>
        /\ ~c.http.hasValue
        /\ \A k \in 1..Len(c.err) : ~Occurs(<<c.err[k]>>, c.http.text)

\* Infra errors of Runner.Run and of Runner.Check have been answered.
C28_Witness ==
  \E i, j \in CallIDs :
     /\ Returned(calls[i]) /\ calls[i].failed = "Run" /\ calls[i].runOut.infra
     /\ calls[i].http.status = StatusInternalServerError
     /\ Returned(calls[j]) /\ calls[j].failed = "Check" /\ calls[j].testOut.infra
     /\ calls[j].http.status = StatusInternalServerError

\* The rows of a task in the ledger that Check wrote (handleCompleteTask
\* writes its rows with the code "[manual]").
RowsOf(t) ==
  { k \in 1..Len(submissions) :
       submissions[k].TaskID = t /\ submissions[k].Code # <<"[manual]">> }

\* The calls for a task that passed load and mode gate and have been through
\* the open-submission step.
AttemptsOf(t) ==
  { i \in CallIDs : calls[i].taskID = t /\ "open" \in Events(calls[i]) }

\* C30: each Check call that passes the load and mode-gate stages creates
\* exactly one Submission row for its attempt and no row is ever deleted, so
\* the number of rows for a task equals the number of such attempts.
C30_OneRowPerAttempt ==
  \A t \in DOMAIN tasks : Cardinality(RowsOf(t)) = Cardinality(AttemptsOf(t))

\* C30 as amended: an attempt creates exactly one row unless CreateSubmission
\* fails, and then none (Check returns that error); no row of Check is ever
\* deleted, so the rows of a task are as many as its attempts whose
\* CreateSubmission succeeded, one row each.
C30_OneRowPerOpenedAttempt ==
  /\ \A t \in DOMAIN tasks :
        Cardinality(RowsOf(t)) =
           Cardinality({ i \in AttemptsOf(t) : calls[i].failed # "open" })
  /\ \A i \in CallIDs :
        LET c == calls[i] IN
        /\ c.subID # 0 <=> ("open" \in Events(c) /\ c.failed # "open")
        /\ c.subID # 0 => /\ c.subID \in RowsOf(c.taskID)
                          /\ Row(c).Code = c.code
        /\ (Returned(c) /\ c.failed = "open")
              => c.err = <<"create submission: ", "db error">>
  /\ \A i, j \in CallIDs :
        (i # j /\ calls[i].subID # 0) => calls[i].subID # calls[j].subID

\* Of two attempts on one task, one has its row and the other failed to
\* create one.
C30_Witness ==
  \E i, j \in CallIDs :
     /\ i # j /\ calls[i].taskID = calls[j].taskID
     /\ Returned(calls[i]) /\ Returned(calls[j])
     /\ calls[i].subID # 0 /\ calls[j].failed = "open"
     /\ Cardinality(RowsOf(calls[i].taskID)) = 1

CompleteIDsOf(t) == { k \in 1..Len(completes) : completes[k].taskID = t }

\* C27: marking a manual task complete through handleCompleteTask awards its
\* points only once: over any sequence and interleaving of complete requests
\* for one manual task, the lesson is credited at most once and at most one
\* response has points_awarded>0.
C27_ManualPointsOnce ==
  \A t \in DOMAIN tasks :
     /\ Cardinality({ k \in CompleteIDsOf(t) : completes[k].credited }) <= 1
     /\ Cardinality({ k \in CompleteIDsOf(t) :
                         /\ completes[k].pc = "done"
                         /\ completes[k].http.kind = "json"
                         /\ completes[k].pointsAwarded > 0 }) <= 1

\* C24: the already-solved decision of a call is the ledger's answer to the
\* query made during the call and nothing else: the Checker keeps no record
\* of solved tasks in the process, so a restart between two calls changes
\* neither call's Success nor its PointsAwarded.
C24_DecisionFromLedger ==
  /\ \A i \in CallIDs :
        LET c == calls[i] IN
        "query" \in Events(c)
        => /\ c.alreadySolved = (c.solvedAtQuery /\ ~c.answerLost)
           /\ c.result.Success
           /\ c.result.PointsAwarded =
                 IF c.solvedAtQuery /\ ~c.answerLost THEN 0
                 ELSE tasks[c.taskID].Points
  /\ \A i, j \in CallIDs :
        ( /\ i \in calls[j].prior
          /\ calls[i].taskID = calls[j].taskID
          /\ PassedAll(calls[i])
          /\ "query" \in Events(calls[j]) /\ ~calls[j].answerLost )
        => /\ calls[j].alreadySolved
           /\ calls[j].result.PointsAwarded = 0

\* A task solved before a restart is found solved by a call after it.
C24_Witness ==
  \E i, j \in CallIDs :
     /\ calls[i].boot < calls[j].boot
     /\ calls[i].taskID = calls[j].taskID
     /\ PassedAll(calls[i]) /\ Awarded(calls[i])
     /\ PassedAll(calls[j]) /\ calls[j].alreadySolved
     /\ calls[j].result.PointsAwarded = 0

\* C29: every Task stored by the importers and loaded by the Checker has a
\* non-negative point value, whatever text the points attribute or points
\* line of the lesson source contains.
C29_PointsNonNegative ==
  /\ \A t \in DOMAIN tasks : tasks[t].Points >= 0
  /\ \A i \in CallIDs : calls[i].task.Points >= 0

C31_RunLeavesLedger ==
  [][runs' # runs =>
       /\ submissions' = submissions
       /\ practice' = practice
       /\ tasks' = tasks
       /\ calls' = calls]_vars

\* A run request was served by the Runner while the ledger held a row and
\* points.
C31_Witness ==
  \E r \in 1..Len(runs) :
     /\ runs[r].called /\ runs[r].http.status = StatusOK
     /\ Len(submissions) > 0
     /\ DOMAIN practice # {}

\* C32: a call whose already-solved query failed while the ledger held a
\* success of the task awards no points: the award is never made on the
\* strength of the failed query.
C32_FailedQueryNoAward ==
  \A i \in CallIDs :
     calls[i].answerLost => calls[i].result.PointsAwarded = 0

\* C33: a call that returns PointsAwarded > 0 credited the task's lesson in
\* that call with success; a call whose crediting failed reports no points.
C33_ReportedIsCredited ==
  \A i \in CallIDs :
     Returned(calls[i]) /\ calls[i].hasResult =>
        /\ calls[i].result.PointsAwarded > 0 =>
              \E n \in 1..Len(calls[i].trace) : calls[i].trace[n] = "credit"
        /\ (\E n \in 1..Len(calls[i].trace) : calls[i].trace[n] = "creditFailed")
              => calls[i].result.PointsAwarded = 0

\* C34: once a Check call that credited the lesson has returned, the ledger
\* holds a success row of its task, and every Check call made after that
\* finds the task solved when it asks, also when UpdateSubmission fails.
C34_CreditedIsSolved ==
  \A i \in CallIDs :
     (/\ Returned(calls[i])
      /\ \E n \in 1..Len(calls[i].trace) : calls[i].trace[n] = "credit") =>
        /\ IsTaskSolvedSuccessfully(calls[i].taskID, TRUE)
        /\ \A j \in CallIDs :
              (/\ i \in calls[j].prior
               /\ calls[j].taskID = calls[i].taskID
               /\ \E n \in 1..Len(calls[j].trace) : calls[j].trace[n] = "query")
                 => calls[j].solvedAtQuery

\* C35: a step of the Checker changes a Submission row only from pending to
\* success or to error, only as the final update of the call that created
\* the row, which returns with it; so a row is written at most once after
\* its creation, and a row that is success or error, or that belongs to
\* another attempt, is never changed.  No row disappears.
C35_RowWrittenOnce ==
  [][/\ Len(submissions') >= Len(submissions)
     /\ \A k \in 1..Len(submissions) :
           submissions'[k] # submissions[k] =>
              /\ submissions[k].Status = "pending"
              /\ submissions'[k].Status \in {"success", "error"}
              /\ submissions'[k].TaskID = submissions[k].TaskID
              /\ submissions'[k].Code = submissions[k].Code
              /\ \E i \in CallIDs :
                    /\ calls[i].subID = k
                    /\ calls[i].pc = "update"
                    /\ calls'[i].pc = "done"
                    /\ \A j \in CallIDs \ {i} : calls'[j] = calls[j]]_vars

\* Two attempts on one task have returned: the row of one is success, the
\* row of the other is error.
C35_Witness ==
  \E i, j \in CallIDs :
     /\ i # j
     /\ Returned(calls[i]) /\ Returned(calls[j])
     /\ calls[i].taskID = calls[j].taskID
     /\ calls[i].subID # 0 /\ calls[j].subID # 0
     /\ submissions[calls[i].subID].Status = "success"
     /\ submissions[calls[j].subID].Status = "error"

\* C36: compareOutput is reflexive and symmetric: a text compared with
\* itself is accepted, and a pair of texts gets the answer the swapped pair
\* gets.
C36_ReflexiveSymmetric ==
  cmp.done /\ cmp # NoCompare =>
     /\ cmp.actual = cmp.expected => cmp.result
     /\ compareOutput(cmp.actual, cmp.actual)
     /\ cmp.result = compareOutput(cmp.expected, cmp.actual)

\* Two different texts with different numbers of lines were compared and
\* accepted.
C36_Witness ==
  /\ cmp.done /\ cmp # NoCompare
  /\ cmp.result
  /\ Len(Split(cmp.actual, "\n")) > Len(Split(cmp.expected, "\n"))

\* C37: the exact comparison of compareOutput never decides: the answer is
\* the answer of the line-by-line comparison of the normalized texts.
C37_ExactTierRedundant ==
  cmp.done /\ cmp # NoCompare =>
     cmp.result = compareLines(normalizeOutput(cmp.actual),
                               normalizeOutput(cmp.expected))

\* Two texts that are equal once normalized, though not as given, were
\* compared.
C37_Witness ==
  /\ cmp.done /\ cmp # NoCompare
  /\ cmp.actual # cmp.expected
  /\ normalizeOutput(cmp.actual) = normalizeOutput(cmp.expected)
  /\ cmp.result

\* A complete request got past the mode check of handleCompleteTask.
Accepted(r) ==
  /\ r.task # NoTask
  /\ ~(r.pc = "done" /\ r.http = badRequest(<<"Task is not manual">>))

\* A Check call got past the mode gate: it went on to open its submission.
Graded(c) == \E n \in 1..Len(c.trace) : c.trace[n] = "gate" /\ c.failed # "gate"

\* C38: whatever mode a task is stored with, Check awards no points for a
\* task of which handleCompleteTask accepts a request, and a request for a
\* task that Check grades is refused and changes nothing in the ledger.
C38_OneAwardingPath ==
  \A i \in CallIDs : \A k \in 1..Len(completes) :
     calls[i].taskID = completes[k].taskID /\ calls[i].task # NoTask =>
        /\ Accepted(completes[k]) =>
              /\ calls[i].result.PointsAwarded = 0
              /\ calls[i].credits = <<>>
              /\ ~Graded(calls[i])
        /\ (Graded(calls[i]) /\ completes[k].task # NoTask) =>
              /\ completes[k].pc = "done"
              /\ completes[k].http = badRequest(<<"Task is not manual">>)
              /\ ~completes[k].created
              /\ ~completes[k].credited
              /\ \A n \in 1..Len(submissions) :
                    submissions[n].Code # <<"[manual]">>

\* A task stored with a mode that only trimming makes manual was refused by
\* Check, and its complete request was answered with its points.
C38_Witness ==
  \E i \in CallIDs : \E k \in 1..Len(completes) :
     /\ calls[i].taskID = completes[k].taskID
     /\ Returned(calls[i]) /\ completes[k].pc = "done"
     /\ calls[i].task.Mode = <<" ", "manual">>
     /\ calls[i].failed = "gate"
     /\ completes[k].pointsAwarded > 0

\* C39: in handleCompleteTask the success row and the crediting stand or
\* fall together: once a request is answered it has written its row exactly
\* if it has credited the lesson, and a task has a success row only if a
\* request credited its points.
C39_RowAndCreditTogether ==
  /\ \A k \in 1..Len(completes) :
        completes[k].pc = "done" =>
           (completes[k].created <=> completes[k].credited)
  /\ \A t \in DOMAIN tasks :
        ((\A k \in CompleteIDsOf(t) : completes[k].pc = "done")
           /\ IsTaskSolvedSuccessfully(t, TRUE))
          => \E k \in CompleteIDsOf(t) : completes[k].credited

\* C40: importing a lesson again does not reopen the scoring of its task:
\* when a call for the lesson's task had returned a success and a later call
\* for the lesson's task, made after it and whatever imports came between,
\* passes every stage with its query answered, the later call awards 0
\* points.  (The lesson of these sources has one task.)
C40_ReimportKeepsSolved ==
  \A i, j \in CallIDs :
     (/\ i \in calls[j].prior
      /\ PassedAll(calls[i]) /\ PassedAll(calls[j])
      /\ calls[i].task.LessonID = calls[j].task.LessonID
      /\ ~calls[j].answerLost)
       => calls[j].result.PointsAwarded = 0
====
